---- MODULE Spec2Model ----
(***************************************************************************)
(* A model of survey/forms.py (ResponseForm) of django-survey: the form    *)
(* build (__init__, add_questions, add_question and the recovery cache),   *)
(* the step resolver (has_next_step, next_step_url) and save().            *)
(*                                                                         *)
(* Text is modelled as a sequence of one-character strings, so that the    *)
(* multi-select body codec works on characters as the Python code does.    *)
(***************************************************************************)
EXTENDS Integers, Sequences, FiniteSets, TLC

(***************************************************************************)
(* Bounds of the model.                                                    *)
(***************************************************************************)
\* longest choice token drawn for the codec
MaxTokenLen == 2
\* most tokens in one multi-select value drawn for the codec
MaxTokens == 2
\* longest raw (legacy) body drawn for the codec
MaxRawLen == 2

(***************************************************************************)
(* Text helpers: Python str operations on sequences of characters.         *)
(***************************************************************************)
\* the characters the model draws tokens from: a lowercase and an uppercase
\* letter, a space, a hyphen, the separator, a single quote and the brackets
Alphabet == {"a", "B", " ", "-", ",", "'", "[", "]"}

\* settings.CHOICES_SEPARATOR, "," in the application's default settings
CHOICES_SEPARATOR == ","

\* s[i:j] with 1-based inclusive bounds, empty when i > j
Slice(s, i, j) == IF i > j THEN <<>> ELSE SubSeq(s, i, j)

\* c in s
Contains(s, c) == \E i \in 1..Len(s) : s[i] = c

\* str.lower() on one character
LowerChar(c) == IF c = "B" THEN "b" ELSE c

\* \s of the regular expressions
IsSpace(c) == c = " "

\* \w of the regular expressions
IsWordChar(c) == c \in {"a", "b", "B", "_"}

\* str.strip(): leading and trailing whitespace removed
RECURSIVE LStrip(_)
LStrip(s) == IF s # <<>> /\ IsSpace(Head(s)) THEN LStrip(Tail(s)) ELSE s

RECURSIVE RStrip(_)
RStrip(s) ==
  IF s # <<>> /\ IsSpace(s[Len(s)]) THEN RStrip(SubSeq(s, 1, Len(s) - 1)) ELSE s

Strip(s) == RStrip(LStrip(s))

\* str.split(sep) for a one-character separator: the pieces between the
\* separators, empty pieces kept, always at least one piece
RECURSIVE SplitAcc(_, _, _)
SplitAcc(s, sep, cur) ==
  IF s = <<>> THEN <<cur>>
  ELSE IF Head(s) = sep THEN <<cur>> \o SplitAcc(Tail(s), sep, <<>>)
  ELSE SplitAcc(Tail(s), sep, Append(cur, Head(s)))

Split(s, sep) == SplitAcc(s, sep, <<>>)

\* re.sub(r'[^\w\s-]', '', value.lower())
RECURSIVE KeepSlugChars(_)
KeepSlugChars(s) ==
  IF s = <<>> THEN <<>>
  ELSE LET c == LowerChar(Head(s))
       IN  IF IsWordChar(c) \/ IsSpace(c) \/ c = "-"
           THEN <<c>> \o KeepSlugChars(Tail(s))
           ELSE KeepSlugChars(Tail(s))

\* re.sub(r'[-\s]+', '-', value): every run of hyphens and spaces becomes "-"
RECURSIVE CollapseDashes(_, _)
CollapseDashes(s, inRun) ==
  IF s = <<>> THEN <<>>
  ELSE IF Head(s) = "-" \/ IsSpace(Head(s))
       THEN (IF inRun THEN <<>> ELSE <<"-">>) \o CollapseDashes(Tail(s), TRUE)
       ELSE <<Head(s)>> \o CollapseDashes(Tail(s), FALSE)

\* django.utils.text.slugify (Django 3.1, ASCII input)
slugify(s) == CollapseDashes(Strip(KeepSlugChars(s)), FALSE)

(***************************************************************************)
(* The persisted multi-select body.                                        *)
(***************************************************************************)
\* repr() of one str: single-quoted, double-quoted when the text holds a
\* single quote (the alphabet holds no double quote and no backslash)
PyReprStr(t) ==
  IF Contains(t, "'") THEN <<"\"">> \o t \o <<"\"">>
  ELSE <<"'">> \o t \o <<"'">>

RECURSIVE PyReprItems(_)
PyReprItems(l) ==
  IF l = <<>> THEN <<>>
  ELSE IF Len(l) = 1 THEN PyReprStr(l[1])
  ELSE PyReprStr(l[1]) \o <<",", " ">> \o PyReprItems(Tail(l))

\* str() of a list of str: what the text column keeps of a multi-select value
PyReprList(l) == <<"[">> \o PyReprItems(l) \o <<"]">>

\* the result of decoding: the list of choices, or the exception raised
Decoded(l) == [ok |-> TRUE, value |-> l]
DecodeError == [ok |-> FALSE, value |-> <<>>]

\* the loop of lines 206-208 over the pieces: piece.split("'")[1], slugified;
\* a piece without a quote has no element 1 and raises IndexError
RECURSIVE DecodePieces(_)
DecodePieces(pieces) ==
  IF pieces = <<>> THEN Decoded(<<>>)
  ELSE LET parts == Split(Head(pieces), "'")
           rest  == DecodePieces(Tail(pieces))
       IN  IF Len(parts) < 2 \/ ~rest.ok THEN DecodeError
           ELSE Decoded(<<slugify(parts[2])>> \o rest.value)

\* a faulty variant of the decoder: the bracketed branch keeps the piece before the
\* first quote instead of the one after it
DecodeMultiple_first(body) ==
  IF body = <<"[", "]">> THEN Decoded(<<>>)
  ELSE IF Contains(body, "[") /\ Contains(body, "]")
       THEN Decoded([i \in 1..Len(Split(Strip(Slice(body, 2, Len(body) - 1)), CHOICES_SEPARATOR))
                       |-> slugify(Split(Split(Strip(Slice(body, 2, Len(body) - 1)),
                                               CHOICES_SEPARATOR)[i], "'")[1])])
       ELSE Decoded(<<slugify(body)>>)

\* the SELECT_MULTIPLE branch of get_question_initial
DecodeMultiple(body) ==
  IF body = <<"[", "]">> THEN Decoded(<<>>)
  ELSE IF Contains(body, "[") /\ Contains(body, "]")
       THEN DecodePieces(Split(Strip(Slice(body, 2, Len(body) - 1)), CHOICES_SEPARATOR))
       ELSE Decoded(<<slugify(body)>>)

\* the set of the elements of a sequence
Range(s) == {s[i] : i \in 1..Len(s)}

(***************************************************************************)
(* Bounds of the form model.                                               *)
(***************************************************************************)
\* form builds and save() calls in one behaviour of SpecPages
MaxPageBuilds == 2
MaxPageSaves == 1
\* form objects alive at once
MaxForms == 2
\* form builds in one behaviour (each draws a fresh interview uuid)
MaxBuilds == 3
\* save() calls in one behaviour
MaxSaves == 3
\* largest step parameter passed to a build
MaxStep == 2
\* largest seed: stands for the 1000000 of random.randint(0, 1000000)
MaxSeed == 1
\* number of states of the pseudo-random generator
RngMod == 5
\* form objects built in one behaviour of SpecCache
MaxCacheForms == 2
\* requests served in one behaviour of SpecThreads
MaxThreadRuns == 2
\* form builds and save() calls in one behaviour of SpecSubmit
MaxSubmitBuilds == 2
MaxSubmitSaves == 2

(***************************************************************************)
(* Optional values: None is <<>>, a value v is <<v>>.                      *)
(***************************************************************************)
None == <<>>
Some(v) == <<v>>
Get(o) == o[1]

(***************************************************************************)
(* The survey schema (survey.models, read through the ORM).                *)
(***************************************************************************)
ALL_IN_ONE == "ALL_IN_ONE"
BY_CATEGORY == "BY_CATEGORY"
BY_QUESTION == "BY_QUESTION"
DisplayMethods == {ALL_IN_ONE, BY_CATEGORY, BY_QUESTION}

Questions == {1, 2, 3}
Categories == {1, 2}

\* AnswerGroup types
TEXT == "text"
SHORT_TEXT == "short-text"
RADIO == "radio"
SELECT == "select"
SELECT_IMAGE == "select_image"
SELECT_MULTIPLE == "select-multiple"
INTEGER == "integer"
FLOAT == "float"
DATE == "date"

\* the answer groups of the survey: id -> declared type
AnswerGroupType == <<TEXT, INTEGER, SELECT_MULTIPLE, SELECT_IMAGE>>
AnswerGroups == DOMAIN AnswerGroupType

\* question.answer_groups: question 1 has a free-text and an integer group,
\* question 2 a multi-select group, question 3 a select-with-image group
AnswerGroupsOf(q) == IF q = 1 THEN {1, 2} ELSE IF q = 2 THEN {3} ELSE {4}

\* the layouts of the questions the model draws the survey from:
\* category (None: uncategorized) and explicit order (None: null) of each
LayoutOrdered ==
  <<[category |-> Some(1), order |-> Some(1)],
    [category |-> Some(1), order |-> Some(2)],
    [category |-> None,    order |-> Some(3)]>>
LayoutMixed ==
  <<[category |-> Some(1), order |-> Some(1)],
    [category |-> Some(1), order |-> Some(2)],
    [category |-> None,    order |-> None]>>
LayoutTwoCategories ==
  <<[category |-> Some(2), order |-> None],
    [category |-> Some(1), order |-> Some(1)],
    [category |-> Some(2), order |-> None]>>
Layouts == {LayoutOrdered, LayoutMixed, LayoutTwoCategories}

Users == {"alice", "anon"}
is_authenticated(user) == user # "anon"

Seeds == 0..MaxSeed
Steps == 0..MaxStep
Slots == 1..MaxForms
RngStates == 0..(RngMod - 1)

VARIABLES
  survey,      \* the Survey row and its questions: display_method,
               \* editable_answers, layout, nulls_first (the database's
               \* placement of NULL in ORDER BY)
  rng,         \* the state of the process-wide generator of module random
  responses,   \* the Response table: row id -> row
  answers,     \* the Answer table: row id -> row
  forms,       \* the ResponseForm objects alive: slot -> form or NoForm
  nbuilds,     \* form builds so far (the source of uuid4)
  nsaves,      \* save() calls so far
  result,      \* what the most recent save() call returned or raised
  nevents,     \* survey_completed signals sent so far
  lastEvent,   \* the data of the most recent survey_completed signal
  firstSeed,   \* history: per user, the seed written by the save() that
               \* inserted the user's Response (None before it)
  codec,       \* the multi-select codec exercised on its own
  queries,     \* history: per form, the queries its lookups sent to the
               \* Response table and to the Answer table
  shown        \* history: the pages a visitor was shown, step after step

vars == <<survey, rng, responses, answers, forms, nbuilds, nsaves, result,
          nevents, lastEvent, firstSeed, codec, queries, shown>>

(***************************************************************************)
(* Schema Reader: the queries of __init__ (lines 61-63) and order_by.      *)
(***************************************************************************)
\* the sort key of order_by("order", "id"): NULL orders come first or last
\* as the database decides
OrderKey(q) ==
  LET o == survey.layout[q].order
  IN  IF o = None THEN (IF survey.nulls_first THEN -1 ELSE 1000000) ELSE Get(o)

Before(p, q) ==
  \/ OrderKey(p) < OrderKey(q)
  \/ OrderKey(p) = OrderKey(q) /\ p < q

\* a set of questions as the list order_by("order", "id") returns
RECURSIVE order_by(_)
order_by(qs) ==
  IF qs = {} THEN <<>>
  ELSE LET first == CHOOSE p \in qs : \A q \in qs \ {p} : Before(p, q)
       IN  <<first>> \o order_by(qs \ {first})

QuestionsOfCategory(c) == {q \in Questions : survey.layout[q].category = Some(c)}

\* a set of category ids in ascending order
RECURSIVE SortIds(_)
SortIds(cs) ==
  IF cs = {} THEN <<>>
  ELSE LET first == CHOOSE c \in cs : \A d \in cs : c <= d
       IN  <<first>> \o SortIds(cs \ {first})

\* survey.non_empty_categories(): the categories holding a question
non_empty_categories == SortIds({c \in Categories : QuestionsOfCategory(c) # {}})

\* self.qs_with_no_cat, line 62
qs_with_no_cat == order_by({q \in Questions : survey.layout[q].category = None})

\* self.randomize_questions, line 63
randomize_questions == {q \in Questions : survey.layout[q].order = None}

\* self.steps_count, lines 65-68
steps_count ==
  IF survey.display_method = BY_CATEGORY
  THEN Len(non_empty_categories) + (IF qs_with_no_cat # <<>> THEN 1 ELSE 0)
  ELSE Cardinality(Questions)

\* survey.is_all_in_one_page()
is_all_in_one_page == survey.display_method = ALL_IN_ONE

(***************************************************************************)
(* Deterministic Shuffler: module random, a process-wide generator.        *)
(* The Mersenne Twister is modelled by a small linear congruential         *)
(* generator; what matters is that seed() sets the whole state and that    *)
(* every draw advances it.                                                 *)
(***************************************************************************)
\* random.seed(s)
RngSeed(s) == s % RngMod

\* one step of the generator
RngNext(state) == (3 * state + 1) % RngMod

\* random._randbelow(n): the state after the draw and a value in 0..n-1
RandBelow(state, n) == [state |-> RngNext(state), value |-> RngNext(state) % n]

\* random.randint(0, 1000000), line 57
RandInt(state) == RandBelow(state, MaxSeed + 1)

Swap(x, i, j) == [x EXCEPT ![i] = x[j], ![j] = x[i]]

\* random.shuffle(x): for i in reversed(range(1, len(x))): j = randbelow(i + 1);
\* x[i], x[j] = x[j], x[i]   (positions are 1-based here)
RECURSIVE ShuffleFrom(_, _, _)
ShuffleFrom(x, i, state) ==
  IF i < 2 THEN [list |-> x, state |-> state]
  ELSE LET d == RandBelow(state, i)
       IN  ShuffleFrom(Swap(x, i, d.value + 1), i - 1, d.state)

\* a faulty variant of the seeded shuffle: the generator is not reset before shuffling
SeededShuffle_noreset(x, seed, state) == ShuffleFrom(x, Len(x), state)

\* random.seed(self.random_seed); random.shuffle(x), lines 98-99 and 107-108,
\* run with the process-wide generator in `state`
SeededShuffle(x, seed, state) == ShuffleFrom(x, Len(x), RngSeed(seed))

(***************************************************************************)
(* Values: a submitted or initial value is a text or a list of texts.      *)
(***************************************************************************)
TextVal(t) == [kind |-> "text", text |-> t, list |-> <<>>]
ListVal(l) == [kind |-> "list", text |-> <<>>, list |-> l]

\* what the text column of Answer.body keeps of a value: str(value)
ToBody(v) == IF v.kind = "list" THEN PyReprList(v.list) ELSE v.text

\* the field question_<q>_<ag> is the pair <<q, ag>>
RECURSIVE FieldsOfGroups(_, _)
FieldsOfGroups(q, ags) ==
  IF ags = {} THEN <<>>
  ELSE LET first == CHOOSE a \in ags : \A b \in ags : a <= b
       IN  <<(<<q, first>>)>> \o FieldsOfGroups(q, ags \ {first})

\* the fields add_question gives one question: its groups by pk (line 264)
FieldsOf(q) == FieldsOfGroups(q, AnswerGroupsOf(q))

\* self.fields after add_question was called for the questions qs in turn
RECURSIVE FormFields(_)
FormFields(qs) ==
  IF qs = <<>> THEN <<>> ELSE FieldsOf(Head(qs)) \o FormFields(Tail(qs))

AllFields == {<<q, ag>> : q \in Questions, ag \in AnswerGroups}

(***************************************************************************)
(* Answer Recovery Cache.                                                  *)
(***************************************************************************)
\* self.response: False (not looked up), None, or a Response row
Unset == [state |-> "False", id |-> 0]
Absent == [state |-> "None", id |-> 0]
Found(r) == [state |-> "found", id |-> r]

\* Response.objects.get(user=..., survey=...): the ids of the matching rows
ResponseRows(user, table) == {r \in DOMAIN table : table[r].user = user}

\* get() raises MultipleObjectsReturned when several rows match
LookupRaises(user, table) ==
  is_authenticated(user) /\ Cardinality(ResponseRows(user, table)) > 1

\* a faulty variant of the lookup: a result of None is memoized like a row
get_preexisting_response_memo_none(memo, user, table) ==
  IF memo.state # "False" THEN memo
  ELSE IF ~is_authenticated(user) THEN Absent
  ELSE IF ResponseRows(user, table) = {} THEN Absent
  ELSE Found(CHOOSE r \in ResponseRows(user, table) : TRUE)

\* _get_preexisting_response, lines 128-148: the new value of self.response.
\* Only a row is memoized: False and None are both falsy on line 135.
get_preexisting_response(memo, user, table) ==
  IF memo.state = "found" THEN memo
  ELSE IF ~is_authenticated(user) THEN Absent
  ELSE IF ResponseRows(user, table) = {} THEN Absent
  ELSE Found(CHOOSE r \in ResponseRows(user, table) : TRUE)

\* self.answers: False, or the dict question -> group -> Answer, kept here
\* as a function from fields to Answer row ids
NotLoaded == [loaded |-> FALSE, map |-> <<>>]
Loaded(m) == [loaded |-> TRUE, map |-> m]

\* the truth value of self.answers on line 158: a non-empty dict
AnswersTruthy(amemo) == amemo.loaded /\ DOMAIN amemo.map # {}

MaxOf(S) == CHOOSE x \in S : \A y \in S : y <= x

\* lines 165-170: the Answers of the response, the later row winning when two
\* rows hold the same question and group (rows come in id order);
\* filter(response=None) matches no row
AnswersDict(rmemo, atable) ==
  LET rows == IF rmemo.state = "found"
              THEN {a \in DOMAIN atable : atable[a].response = rmemo.id}
              ELSE {}
      keys == {<<atable[a].question, atable[a].answer_group>> : a \in rows}
  IN  [f \in keys |->
         MaxOf({a \in rows : <<atable[a].question, atable[a].answer_group>> = f})]

\* _get_preexisting_answers, lines 150-174: the new values of self.response
\* and self.answers
get_preexisting_answers(cache, user, rtable, atable) ==
  IF AnswersTruthy(cache.answers) THEN cache
  ELSE LET rmemo == get_preexisting_response(cache.response, user, rtable)
       IN  [response |-> rmemo, answers |-> Loaded(AnswersDict(rmemo, atable))]

(***************************************************************************)
(* Field Synthesizer: initial values.                                      *)
(***************************************************************************)
\* the data argument of a build: falsy (None or empty), or a dict whose
\* entries under the keys question_<id> are kept as question -> group -> value
NoData == [truthy |-> FALSE, entries |-> <<>>]

\* lines 196-213: the initial values recovered from the stored Answers of
\* question q; ok is FALSE when decoding a multi-select body raises
StoredInitial(q, amap, atable) ==
  LET ags == {ag \in AnswerGroups : <<q, ag>> \in DOMAIN amap}
      body(ag) == atable[amap[<<q, ag>>]].body
      dec(ag) == DecodeMultiple(body(ag))
  IN  [ok |-> \A ag \in ags : AnswerGroupType[ag] = SELECT_MULTIPLE => dec(ag).ok,
       value |-> [ag \in ags |->
                    IF AnswerGroupType[ag] = SELECT_MULTIPLE
                    THEN ListVal(dec(ag).value)
                    ELSE TextVal(body(ag))]]

\* data.get("question_%d" % question.pk); None is kept as the empty dict,
\* which is as falsy on line 295
DataInitial(q, data) ==
  IF q \in DOMAIN data.entries THEN data.entries[q] ELSE <<>>

\* a faulty variant of get_question_initial: submitted data is merged over the
\* stored values instead of replacing them
get_question_initial_merge(q, data, amap, atable) ==
  LET stored == StoredInitial(q, amap, atable)
      sent == DataInitial(q, data)
  IN  IF data.truthy
      THEN [ok |-> stored.ok,
            value |-> [ag \in DOMAIN stored.value \cup DOMAIN sent |->
                         IF ag \in DOMAIN sent THEN sent[ag] ELSE stored.value[ag]]]
      ELSE stored

\* get_question_initial, lines 188-218
get_question_initial(q, data, amap, atable) ==
  LET stored == StoredInitial(q, amap, atable)
  IN  IF data.truthy
      THEN [ok |-> stored.ok, value |-> DataInitial(q, data)]
      ELSE stored

\* lines 266-270 for the questions qs: the fields that get an initial value
InitialOfFields(qs, data, amap, atable) ==
  LET fs == {f \in Range(FormFields(qs)) :
               f[2] \in DOMAIN get_question_initial(f[1], data, amap, atable).value}
  IN  [f \in fs |-> get_question_initial(f[1], data, amap, atable).value[f[2]]]

(***************************************************************************)
(* Field Synthesizer: field kinds and widgets.                             *)
(***************************************************************************)
\* FIELDS, lines 22-29, and the fallback of lines 284-285
FieldKind(t) ==
  CASE t \in {TEXT, SHORT_TEXT} -> "CharField"
    [] t = SELECT_MULTIPLE -> "MultipleChoiceField"
    [] t = INTEGER -> "IntegerField"
    [] t = FLOAT -> "FloatField"
    [] t = DATE -> "DateField"
    [] OTHER -> "ChoiceField"

\* the widget a django.forms field of each kind has when none is passed
DefaultWidget(kind) ==
  CASE kind = "CharField" -> "TextInput"
    [] kind = "MultipleChoiceField" -> "SelectMultiple"
    [] kind = "IntegerField" -> "NumberInput"
    [] kind = "FloatField" -> "NumberInput"
    [] kind = "DateField" -> "DateInput"
    [] OTHER -> "Select"

\* WIDGETS, lines 31-38
WIDGETS ==
  [t \in {TEXT, SHORT_TEXT, RADIO, SELECT, SELECT_IMAGE, SELECT_MULTIPLE} |->
     CASE t = TEXT -> "Textarea"
       [] t = SHORT_TEXT -> "TextInput"
       [] t = RADIO -> "RadioSelect"
       [] t = SELECT -> "Select"
       [] t = SELECT_IMAGE -> "ImageSelectWidget"
       [] OTHER -> "CheckboxSelectMultiple"]

\* get_question_widget, lines 220-228: the dict group -> widget of the
\* question, or None when the type of one of its groups has no widget
get_question_widget(q) ==
  IF \A ag \in AnswerGroupsOf(q) : AnswerGroupType[ag] \in DOMAIN WIDGETS
  THEN Some([ag \in AnswerGroupsOf(q) |-> WIDGETS[AnswerGroupType[ag]]])
  ELSE None

\* lines 300-302 and 276-285: the widget of the field of group ag of
\* question q
FieldWidget(q, ag) ==
  LET widget == get_question_widget(q)
  IN  IF widget # None /\ Get(widget) # <<>> /\ ag \in DOMAIN Get(widget)
      THEN Get(widget)[ag]
      ELSE DefaultWidget(FieldKind(AnswerGroupType[ag]))

(***************************************************************************)
(* Step Resolver: add_questions.                                           *)
(***************************************************************************)
\* lines 96-99 and 105-108: the list is shuffled when some question of the
\* survey has no explicit order; the generator is left where the shuffle ends
MaybeShuffle(x, seed, state) ==
  IF randomize_questions # {}
  THEN SeededShuffle(x, seed, state)
  ELSE [list |-> x, state |-> state]

\* line 91 and 94 raise IndexError for a step beyond len(self.categories)
StepRaises(step) ==
  /\ survey.display_method = BY_CATEGORY
  /\ step # None
  /\ Get(step) > Len(non_empty_categories)

\* a faulty variant of the page of a category step: the last step shows the last
\* category again instead of the uncategorized questions
QsForStep_nouncat(s) ==
  IF s >= Len(non_empty_categories)
  THEN order_by(QuestionsOfCategory(non_empty_categories[Len(non_empty_categories)]))
  ELSE order_by(QuestionsOfCategory(non_empty_categories[s + 1]))

\* lines 91-94: qs_for_step of step s (categories are indexed from 0 there)
QsForStep(s) ==
  IF s = Len(non_empty_categories)
  THEN qs_with_no_cat
  ELSE order_by(QuestionsOfCategory(non_empty_categories[s + 1]))

\* a faulty variant of the filter of lines 110-113: the question after the step is kept
KeepForStep_next(x, step) ==
  IF survey.display_method = BY_QUESTION /\ step # None
  THEN SelectSeq([i \in 1..Len(x) |-> <<i, x[i]>>],
                 LAMBDA p : p[1] - 1 = Get(step) + 1)
  ELSE [i \in 1..Len(x) |-> <<i, x[i]>>]

\* lines 110-113: in BY_QUESTION mode with a step, only the question whose
\* index is the step is kept (as pairs <<position, question>>)
KeepForStep(x, step) ==
  IF survey.display_method = BY_QUESTION /\ step # None
  THEN SelectSeq([i \in 1..Len(x) |-> <<i, x[i]>>],
                 LAMBDA p : p[1] - 1 = Get(step))
  ELSE [i \in 1..Len(x) |-> <<i, x[i]>>]

\* add_questions, lines 86-114: the questions added to the form, in order,
\* and the generator after it
PageOf(step, seed, state) ==
  IF survey.display_method = BY_CATEGORY /\ step # None
  THEN MaybeShuffle(QsForStep(Get(step)), seed, state)
  ELSE LET sh == MaybeShuffle(order_by(Questions), seed, state)
           kept == KeepForStep(sh.list, step)
       IN  [list |-> [i \in 1..Len(kept) |-> kept[i][2]], state |-> sh.state]

\* a faulty variant of has_next_step: the last step still has a next one
has_next_step_le(step) ==
  IF ~is_all_in_one_page
  THEN IF step = None THEN "TypeError"
       ELSE IF Get(step) <= steps_count - 1 THEN "True" ELSE "False"
  ELSE "False"

\* has_next_step, lines 318-322; None < int raises TypeError
has_next_step(step) ==
  IF ~is_all_in_one_page
  THEN IF step = None THEN "TypeError"
       ELSE IF Get(step) < steps_count - 1 THEN "True" ELSE "False"
  ELSE "False"

(***************************************************************************)
(* The form build: ResponseForm.__init__.                                  *)
(***************************************************************************)
NoForm == [built |-> FALSE]

\* lines 54-57: the seed parameter, or a draw from the process-wide generator
SeedOf(seedParam, state) ==
  IF seedParam = None
  THEN [seed |-> RandInt(state).value, state |-> RandInt(state).state]
  ELSE [seed |-> Get(seedParam), state |-> state]

\* lines 76-77: the seed of the stored Response replaces the form's own
ActiveSeed(rmemo, seed) ==
  IF rmemo.state = "found" THEN responses[rmemo.id].random_seed ELSE seed

\* lines 82-84: the fields are disabled when answers are locked
DisabledFields(rmemo) == ~survey.editable_answers /\ rmemo.state = "found"

\* the form object __init__ leaves behind, and the generator after it
BuiltForm(user, step, seedParam, data) ==
  LET drawn == SeedOf(seedParam, rng)
      rmemo == get_preexisting_response(Unset, user, responses)
      seed  == ActiveSeed(rmemo, drawn.seed)
      page  == PageOf(step, seed, drawn.state)
      \* get_question_initial queries the answers once a question is added
      cache == IF page.list = <<>>
               THEN [response |-> rmemo, answers |-> NotLoaded]
               ELSE get_preexisting_answers(
                      [response |-> rmemo, answers |-> NotLoaded],
                      user, responses, answers)
  IN  [form |-> [built |-> TRUE,
                 user |-> user,
                 step |-> step,
                 data |-> data,
                 random_seed |-> seed,
                 uuid |-> nbuilds + 1,
                 instance |-> 0,
                 response |-> cache.response,
                 answers |-> cache.answers,
                 qs |-> page.list,
                 initial |-> InitialOfFields(page.list, data, cache.answers.map, answers),
                 widget |-> [f \in Range(FormFields(page.list)) |->
                               FieldWidget(f[1], f[2])],
                 disabled |-> DisabledFields(cache.response)],
       ok |-> \A q \in Range(page.list) :
                get_question_initial(q, data, cache.answers.map, answers).ok,
       state |-> page.state]

\* the data arguments drawn: none, a POST without question_<id> keys, and
\* a dict with an entry for one group of question 1
DataSet ==
  { NoData,
    [truthy |-> TRUE, entries |-> <<>>],
    [truthy |-> TRUE,
     entries |-> [q \in {1} |-> [ag \in {1} |-> TextVal(<<"d">>)]]] }

\* ResponseForm(survey=..., user=..., step=..., seed=..., data=...) built into
\* slot i; a build that raises leaves no form
BuildForm(i, user, step, seedParam, data) ==
  /\ ~LookupRaises(user, responses)
  /\ ~StepRaises(step)
  /\ \E b \in {BuiltForm(user, step, seedParam, data)} :
         /\ b.ok
         /\ forms' = [forms EXCEPT ![i] = b.form]
         /\ rng' = b.state
  /\ nbuilds' = nbuilds + 1
  /\ UNCHANGED <<survey, responses, answers, nsaves, result, nevents,
                 lastEvent, firstSeed, codec>>

\* a build outside the histories of the lookups and of the pages shown
Build(i, user, step, seedParam, data) ==
  BuildForm(i, user, step, seedParam, data) /\ UNCHANGED <<queries, shown>>

(***************************************************************************)
(* Submission Materializer: save().                                        *)
(***************************************************************************)
\* the values drawn for a validated field of each group; images are the
\* values drawn for a select-with-image field
ImageWithSource == TextVal(<<"a", ":", "i">>)
ImageWithoutSource == TextVal(<<"a">>)

FieldValues(ag, images) ==
  CASE AnswerGroupType[ag] = TEXT ->
         {TextVal(<<"a">>), TextVal(<<"b">>)}
    [] AnswerGroupType[ag] = INTEGER ->
         {TextVal(<<"7">>)}
    [] AnswerGroupType[ag] = SELECT_MULTIPLE ->
         {ListVal(<< <<"a">>, <<"b">> >>)}
    [] AnswerGroupType[ag] = SELECT_IMAGE ->
         images

\* the lists of values for the fields flds, one value for each in turn
RECURSIVE ValueLists(_, _)
ValueLists(flds, images) ==
  IF flds = <<>> THEN {<<>>}
  ELSE {<<v>> \o rest : v \in FieldValues(Head(flds)[2], images),
                        rest \in ValueLists(Tail(flds), images)}

\* self.cleaned_data of a form: a value for every field of the form, in the
\* order of the fields
CleanedData(f, images) == ValueLists(FormFields(f.qs), images)

\* a faulty variant of the lock of line 353: the lock is never applied
LockedNoOp_never(rmemo) == FALSE

\* line 353: answers are locked and a Response exists
LockedNoOp(rmemo) == ~survey.editable_answers /\ rmemo.state = "found"

\* line 382: value, img_src = field_value.split(":", 1) raises ValueError
\* when the value holds no colon
SplitImageRaises(ag, v) ==
  AnswerGroupType[ag] = SELECT_IMAGE /\ ~Contains(v.text, ":")

\* lines 378-389 for one field, cache being the caches as the lookup of
\* line 378 leaves them: the Answer is updated or inserted, unless line 382
\* raises
SaveField(fld, v, rid, acc, cache) ==
  LET existing == IF fld \in DOMAIN cache.answers.map
                  THEN cache.answers.map[fld] ELSE 0
      row == [response |-> rid, question |-> fld[1],
              answer_group |-> fld[2], body |-> ToBody(v)]
  IN  IF SplitImageRaises(fld[2], v)
      THEN [acc EXCEPT !.cache = cache, !.raised = TRUE]
      ELSE [atable |-> IF existing = 0
                       THEN Append(acc.atable, row)
                       ELSE [acc.atable EXCEPT ![existing] = row],
            cache |-> cache,
            pairs |-> Append(acc.pairs, <<fld[1], v>>),
            raised |-> FALSE]

\* lines 368-389: the loop over the fields. acc holds the Answer table, the
\* caches of the form, the pairs collected for the signal and whether the
\* loop raised.
RECURSIVE SaveLoop(_, _, _, _, _, _)
SaveLoop(fields, cleaned, rid, user, rtable, acc) ==
  IF fields = <<>> \/ acc.raised THEN acc
  ELSE SaveLoop(Tail(fields), Tail(cleaned), rid, user, rtable,
         SaveField(Head(fields), Head(cleaned), rid, acc,
                   get_preexisting_answers(acc.cache, user, rtable, acc.atable)))

\* lines 357-362: the Response row response.save() writes; a NULL user is
\* kept as "anon"
SavedResponseRow(f, rid) ==
  [user |-> IF is_authenticated(f.user) THEN f.user
            ELSE IF rid \in DOMAIN responses THEN responses[rid].user ELSE "anon",
   random_seed |-> f.random_seed,
   interview_uuid |-> f.uuid]

\* save() of the form in slot i with cleaned_data = cleaned
SaveForm(i, cleaned) ==
  /\ forms[i].built
  /\ nsaves' = nsaves + 1
  /\ LET f == forms[i]
         rmemo == get_preexisting_response(f.response, f.user, responses)
     IN  /\ f.response.state = "found" \/ ~LookupRaises(f.user, responses)
         /\ IF LockedNoOp(rmemo)
            THEN /\ forms' = [forms EXCEPT ![i].response = rmemo]
                 /\ result' = [slot |-> i, kind |-> "None", id |-> 0]
                 /\ UNCHANGED <<responses, answers, nevents, lastEvent, firstSeed>>
            ELSE LET \* line 356: super().save(commit=False) is self.instance
                     rid == IF rmemo.state = "found" THEN rmemo.id
                            ELSE IF f.instance # 0 THEN f.instance
                            ELSE Len(responses) + 1
                     row == SavedResponseRow(f, rid)
                     rtable == IF rid \in DOMAIN responses
                               THEN [responses EXCEPT ![rid] = row]
                               ELSE Append(responses, row)
                 IN  \E loop \in {SaveLoop(FormFields(f.qs), cleaned, rid, f.user, rtable,
                                    [atable |-> answers,
                                     cache |-> [response |-> rmemo, answers |-> f.answers],
                                     pairs |-> <<>>,
                                     raised |-> FALSE])} :
                     /\ responses' = rtable
                     /\ firstSeed' = IF rid \in DOMAIN responses THEN firstSeed
                                     ELSE [firstSeed EXCEPT ![f.user] = Some(f.random_seed)]
                     /\ answers' = loop.atable
                     /\ forms' = [forms EXCEPT ![i] =
                                    [f EXCEPT !.response = loop.cache.response,
                                              !.answers = loop.cache.answers,
                                              !.instance = IF rmemo.state = "found"
                                                           THEN f.instance ELSE rid]]
                     /\ IF loop.raised
                        THEN /\ result' = [slot |-> i, kind |-> "ValueError", id |-> 0]
                             /\ UNCHANGED <<nevents, lastEvent>>
                        ELSE /\ result' = [slot |-> i, kind |-> "Response", id |-> rid]
                             /\ nevents' = nevents + 1
                             /\ lastEvent' = [survey_id |-> 1,
                                              interview_uuid |-> f.uuid,
                                              responses |-> loop.pairs]
  /\ UNCHANGED <<survey, rng, nbuilds, codec>>

\* a save() outside the histories of the lookups and of the pages shown
Save(i, cleaned) == SaveForm(i, cleaned) /\ UNCHANGED <<queries, shown>>

(***************************************************************************)
(* The specification of the form builds and saves.                         *)
(***************************************************************************)
NoEvent == [survey_id |-> 0, interview_uuid |-> 0, responses |-> <<>>]
NoQueries == [response |-> 0, answers |-> 0]
NoCodec == [phase |-> "off", tokens |-> <<>>, body |-> <<>>,
            decoded |-> Decoded(<<>>)]

\* a new form object takes the first free slot, or the place of a form that
\* is no longer referenced
FreeOrFirst(i) == \A j \in Slots : j < i => forms[j].built

StepParams == {None} \cup {Some(n) : n \in Steps}
SeedParams == {None} \cup {Some(n) : n \in Seeds}

\* the tables and the process as the first request finds them
InitOf(surveys, rngs) ==
  /\ survey \in surveys
  /\ rng \in rngs
  /\ responses = <<>>
  /\ answers = <<>>
  /\ forms = [i \in Slots |-> NoForm]
  /\ nbuilds = 0
  /\ nsaves = 0
  /\ result = [slot |-> 0, kind |-> "init", id |-> 0]
  /\ nevents = 0
  /\ lastEvent = NoEvent
  /\ firstSeed = [u \in Users |-> None]
  /\ codec = NoCodec
  /\ queries = [i \in Slots |-> NoQueries]
  /\ shown = <<>>

\* Spec: the builds and saves of a logged-in user on a
\* survey with two ordered questions in one category and an uncategorized
\* question of null order, in every display mode, locked or editable
Init ==
  InitOf([display_method : DisplayMethods,
          editable_answers : BOOLEAN,
          layout : {LayoutMixed},
          nulls_first : {FALSE}],
         {0})

Next ==
  \/ /\ nbuilds < MaxBuilds
     /\ \E i \in Slots, step \in {None, Some(0), Some(1)}, seedParam \in SeedParams :
          /\ FreeOrFirst(i)
          /\ Build(i, "alice", step, seedParam, NoData)
  \/ /\ nsaves < MaxSaves
     /\ \E i \in Slots :
          /\ forms[i].built
          /\ \E cleaned \in CleanedData(forms[i], {ImageWithSource}) : Save(i, cleaned)

Spec == Init /\ [][Next]_vars

(***************************************************************************)
(* SpecPages: the builds of a logged-in and an anonymous user, with every  *)
(* step, seed and data argument, on every layout and display mode of an    *)
(* editable survey; saves put stored Answers under the later builds.       *)
(***************************************************************************)
InitPages ==
  InitOf({sv \in [display_method : DisplayMethods,
                  editable_answers : {TRUE},
                  layout : Layouts,
                  nulls_first : BOOLEAN] :
            \* the placement of NULL matters only when an order is null
            sv.nulls_first => \E q \in Questions : sv.layout[q].order = None},
         RngStates)

NextPages ==
  \/ /\ nbuilds < MaxPageBuilds
     /\ \E i \in Slots, user \in Users, step \in StepParams,
           seedParam \in SeedParams, data \in DataSet :
          /\ FreeOrFirst(i)
          /\ Build(i, user, step, seedParam, data)
  \/ /\ nsaves < MaxPageSaves
     /\ \E i \in Slots :
          /\ forms[i].built
          /\ \E cleaned \in CleanedData(forms[i], {ImageWithSource}) : Save(i, cleaned)

SpecPages == InitPages /\ [][NextPages]_vars

(***************************************************************************)
(* SpecSubmit: the submissions of a logged-in and an anonymous user, the   *)
(* value of a select-with-image field holding a colon or not.             *)
(***************************************************************************)
NextSubmit ==
  \/ /\ nbuilds < MaxSubmitBuilds
     /\ \E i \in Slots, user \in Users, step \in {None, Some(0), Some(1)},
           seedParam \in SeedParams :
          /\ FreeOrFirst(i)
          /\ Build(i, user, step, seedParam, NoData)
  \/ /\ nsaves < MaxSubmitSaves
     /\ \E i \in Slots :
          /\ forms[i].built
          /\ \E cleaned \in CleanedData(forms[i], {ImageWithSource, ImageWithoutSource}) :
                Save(i, cleaned)

SpecSubmit == Init /\ [][NextSubmit]_vars

(***************************************************************************)
(* SpecCache: one form from construction through save(), lookup by lookup. *)
(* Each call of _get_preexisting_response and _get_preexisting_answers is  *)
(* a step, and the queries it sends to the tables are counted.             *)
(***************************************************************************)
\* lines 135-144: the call sends a query unless a row is memoized or the
\* user is anonymous
ResponseQueried(memo, user) == memo.state # "found" /\ is_authenticated(user)

\* lines 158-165: the call sends a query unless a non-empty dict is memoized
AnswersQueried(amemo) == ~AnswersTruthy(amemo)

\* the queries of one call of _get_preexisting_response
CountResponseCall(q, memo, user) ==
  [q EXCEPT !.response = @ + (IF ResponseQueried(memo, user) THEN 1 ELSE 0)]

\* the queries of one call of _get_preexisting_answers, the nested call of
\* line 161 included
CountAnswersCall(q, cache, user) ==
  IF AnswersQueried(cache.answers)
  THEN [response |-> CountResponseCall(q, cache.response, user).response,
        answers |-> q.answers + 1]
  ELSE q

\* lines 70-71: a form is constructed for a page of questions qs
CacheNew(i, user, qs) ==
  /\ nbuilds < MaxCacheForms
  /\ FreeOrFirst(i)
  /\ forms[i].built => forms[i].pc = "done"
  /\ forms' = [forms EXCEPT ![i] =
                 [built |-> TRUE, pc |-> "new", user |-> user, uuid |-> nbuilds + 1,
                  response |-> Unset, answers |-> NotLoaded,
                  todo |-> qs, fields |-> FormFields(qs), rid |-> 0]]
  /\ queries' = [queries EXCEPT ![i] = NoQueries]
  /\ nbuilds' = nbuilds + 1
  /\ UNCHANGED <<survey, rng, responses, answers, nsaves, result, nevents,
                 lastEvent, firstSeed, codec, shown>>

\* line 75: the lookup of __init__
CacheInitLookup(i) ==
  /\ forms[i].built /\ forms[i].pc = "new"
  /\ ~LookupRaises(forms[i].user, responses)
  /\ forms' = [forms EXCEPT
                 ![i].response = get_preexisting_response(@, forms[i].user, responses),
                 ![i].pc = "init"]
  /\ queries' = [queries EXCEPT
                   ![i] = CountResponseCall(@, forms[i].response, forms[i].user)]
  /\ UNCHANGED <<survey, rng, responses, answers, nbuilds, nsaves, result,
                 nevents, lastEvent, firstSeed, codec, shown>>

\* line 293 for the next question of the page: get_question_initial looks
\* the Answers up (line 195); the form is built when no question is left
CacheQuestion(i) ==
  /\ forms[i].built /\ forms[i].pc = "init"
  /\ IF forms[i].todo = <<>>
     THEN /\ forms' = [forms EXCEPT ![i].pc = "built"]
          /\ UNCHANGED queries
     ELSE \E c \in {get_preexisting_answers(
                       [response |-> forms[i].response, answers |-> forms[i].answers],
                       forms[i].user, responses, answers)} :
            /\ forms' = [forms EXCEPT ![i].response = c.response,
                                      ![i].answers = c.answers,
                                      ![i].todo = Tail(@)]
            /\ queries' = [queries EXCEPT
                             ![i] = CountAnswersCall(@,
                                      [response |-> forms[i].response,
                                       answers |-> forms[i].answers],
                                      forms[i].user)]
  /\ UNCHANGED <<survey, rng, responses, answers, nbuilds, nsaves, result,
                 nevents, lastEvent, firstSeed, codec, shown>>

\* lines 352-363: the lookup of save(), the lock, and the Response row
CacheSaveLookup(i) ==
  /\ forms[i].built /\ forms[i].pc = "built"
  /\ forms[i].response.state = "found" \/ ~LookupRaises(forms[i].user, responses)
  /\ nsaves' = nsaves + 1
  /\ queries' = [queries EXCEPT
                   ![i] = CountResponseCall(@, forms[i].response, forms[i].user)]
  /\ \E rmemo \in {get_preexisting_response(forms[i].response, forms[i].user, responses)} :
       IF LockedNoOp(rmemo)
       THEN /\ forms' = [forms EXCEPT ![i].response = rmemo, ![i].pc = "done"]
            /\ result' = [slot |-> i, kind |-> "None", id |-> 0]
            /\ UNCHANGED responses
       ELSE \E rid \in {IF rmemo.state = "found" THEN rmemo.id ELSE Len(responses) + 1} :
              /\ forms' = [forms EXCEPT ![i].response = rmemo, ![i].rid = rid,
                                        ![i].pc = "saving"]
              /\ result' = [slot |-> i, kind |-> "saving", id |-> rid]
              /\ responses' =
                   IF rid \in DOMAIN responses
                   THEN [responses EXCEPT ![rid] =
                           [user |-> IF is_authenticated(forms[i].user)
                                     THEN forms[i].user ELSE responses[rid].user,
                            random_seed |-> 0, interview_uuid |-> forms[i].uuid]]
                   ELSE Append(responses,
                          [user |-> forms[i].user, random_seed |-> 0,
                           interview_uuid |-> forms[i].uuid])
  /\ UNCHANGED <<survey, rng, answers, nbuilds, nevents, lastEvent, firstSeed,
                 codec, shown>>

\* lines 368-391: the next field of the loop looks its Answer up (line 378)
\* and stores it; save() returns when no field is left
CacheSaveField(i) ==
  /\ forms[i].built /\ forms[i].pc = "saving"
  /\ IF forms[i].fields = <<>>
     THEN /\ forms' = [forms EXCEPT ![i].pc = "done"]
          /\ result' = [slot |-> i, kind |-> "Response", id |-> forms[i].rid]
          /\ UNCHANGED <<answers, queries>>
     ELSE \E c \in {get_preexisting_answers(
                       [response |-> forms[i].response, answers |-> forms[i].answers],
                       forms[i].user, responses, answers)},
             v \in FieldValues(Head(forms[i].fields)[2], {ImageWithSource}) :
            /\ forms' = [forms EXCEPT ![i].response = c.response,
                                      ![i].answers = c.answers,
                                      ![i].fields = Tail(@)]
            /\ queries' = [queries EXCEPT
                             ![i] = CountAnswersCall(@,
                                      [response |-> forms[i].response,
                                       answers |-> forms[i].answers],
                                      forms[i].user)]
            /\ answers' = SaveField(Head(forms[i].fields), v, forms[i].rid,
                                    [atable |-> answers, cache |-> c,
                                     pairs |-> <<>>, raised |-> FALSE], c).atable
            /\ UNCHANGED result
  /\ UNCHANGED <<survey, rng, responses, nbuilds, nsaves, nevents, lastEvent,
                 firstSeed, codec, shown>>

InitCache ==
  InitOf([display_method : {ALL_IN_ONE},
          editable_answers : BOOLEAN,
          layout : {LayoutOrdered},
          nulls_first : {FALSE}],
         {0})

NextCache ==
  \/ \E i \in Slots, user \in Users, qs \in {<<>>, <<1>>, <<1, 2>>} : CacheNew(i, user, qs)
  \/ \E i \in Slots : CacheInitLookup(i)
  \/ \E i \in Slots : CacheQuestion(i)
  \/ \E i \in Slots : CacheSaveLookup(i)
  \/ \E i \in Slots : CacheSaveField(i)

SpecCache == InitCache /\ [][NextCache]_vars

(***************************************************************************)
(* SpecThreads: two requests served by two threads of one process. Each    *)
(* builds a form and saves it; the threads interleave between the lines    *)
(* that read or write what they share: the generator of module random and  *)
(* the tables.                                                             *)
(***************************************************************************)
ThreadUsers == {"alice", "bob"}

\* a faulty variant of lines 355-356: the Response is looked up again before a row
\* is created
ResponseToSave_requery(rmemo, user, table) ==
  IF rmemo.state = "found" THEN rmemo.id
  ELSE IF is_authenticated(user) /\ ResponseRows(user, table) # {}
       THEN CHOOSE r \in ResponseRows(user, table) : TRUE
       ELSE Len(table) + 1

\* lines 355-356: the row response.save() writes is the one the lookup of
\* line 352 found, or a new one
ResponseToSave(rmemo, user, table) ==
  IF rmemo.state = "found" THEN rmemo.id ELSE Len(table) + 1

\* lines 44-78: the parameters, the seed and the lookup of __init__
ThreadInit(i, user, seedParam) ==
  /\ nbuilds < MaxThreadRuns
  /\ ~forms[i].built
  /\ ~LookupRaises(user, responses)
  /\ \E drawn \in {SeedOf(seedParam, rng)},
        rmemo \in {get_preexisting_response(Unset, user, responses)} :
       /\ forms' = [forms EXCEPT ![i] =
                      [built |-> TRUE, pc |-> "init", user |-> user,
                       uuid |-> nbuilds + 1,
                       random_seed |-> ActiveSeed(rmemo, drawn.seed),
                       response |-> rmemo, answers |-> NotLoaded,
                       list |-> <<>>, qs |-> <<>>, rid |-> 0]]
       /\ rng' = drawn.state
  /\ nbuilds' = nbuilds + 1
  /\ UNCHANGED <<survey, responses, answers, nsaves, result, nevents,
                 lastEvent, firstSeed, codec, queries, shown>>

\* lines 104-107: the ordered list is read and the generator is reset with
\* the seed of the form
ThreadSeed(i) ==
  /\ forms[i].built /\ forms[i].pc = "init"
  /\ forms' = [forms EXCEPT ![i].list = order_by(Questions), ![i].pc = "seeded"]
  /\ rng' = IF randomize_questions # {} THEN RngSeed(forms[i].random_seed) ELSE rng
  /\ UNCHANGED <<survey, responses, answers, nbuilds, nsaves, result, nevents,
                 lastEvent, firstSeed, codec, queries, shown>>

\* lines 108-114: the list is shuffled with the generator as it stands and
\* the questions are added, which looks the Answers up
ThreadShuffle(i) ==
  /\ forms[i].built /\ forms[i].pc = "seeded"
  /\ \E sh \in {IF randomize_questions # {}
                 THEN ShuffleFrom(forms[i].list, Len(forms[i].list), rng)
                 ELSE [list |-> forms[i].list, state |-> rng]},
        c \in {get_preexisting_answers(
                 [response |-> forms[i].response, answers |-> forms[i].answers],
                 forms[i].user, responses, answers)} :
       /\ forms' = [forms EXCEPT ![i].qs = sh.list, ![i].pc = "built",
                                 ![i].response = c.response,
                                 ![i].answers = c.answers]
       /\ rng' = sh.state
  /\ UNCHANGED <<survey, responses, answers, nbuilds, nsaves, result, nevents,
                 lastEvent, firstSeed, codec, queries, shown>>

\* line 352: the lookup of save()
ThreadLookup(i) ==
  /\ forms[i].built /\ forms[i].pc = "built"
  /\ forms[i].response.state = "found" \/ ~LookupRaises(forms[i].user, responses)
  /\ forms' = [forms EXCEPT
                 ![i].response = get_preexisting_response(@, forms[i].user, responses),
                 ![i].pc = "looked"]
  /\ nsaves' = nsaves + 1
  /\ UNCHANGED <<survey, rng, responses, answers, nbuilds, result, nevents,
                 lastEvent, firstSeed, codec, queries, shown>>

\* lines 353-363: the lock, then the Response row is written. The insert of
\* a second row for a logged-in user is rejected (IntegrityError) when the
\* table carries a uniqueness constraint, which the schema decides
ThreadStore(i) ==
  /\ forms[i].built /\ forms[i].pc = "looked"
  /\ IF LockedNoOp(forms[i].response)
     THEN /\ forms' = [forms EXCEPT ![i].pc = "done"]
          /\ result' = [slot |-> i, kind |-> "None", id |-> 0]
          /\ UNCHANGED responses
     ELSE \E rid \in {ResponseToSave(forms[i].response, forms[i].user, responses)},
             rejected \in BOOLEAN :
            /\ rejected => /\ rid \notin DOMAIN responses
                            /\ ResponseRows(forms[i].user, responses) # {}
            /\ IF rejected
               THEN /\ forms' = [forms EXCEPT ![i].pc = "done"]
                    /\ result' = [slot |-> i, kind |-> "IntegrityError", id |-> 0]
                    /\ UNCHANGED responses
               ELSE /\ forms' = [forms EXCEPT ![i].pc = "stored", ![i].rid = rid]
                    /\ result' = [slot |-> i, kind |-> "stored", id |-> rid]
                    /\ responses' =
                         IF rid \in DOMAIN responses
                         THEN [responses EXCEPT ![rid] =
                                 [user |-> forms[i].user,
                                  random_seed |-> forms[i].random_seed,
                                  interview_uuid |-> forms[i].uuid]]
                         ELSE Append(responses,
                                [user |-> forms[i].user,
                                 random_seed |-> forms[i].random_seed,
                                 interview_uuid |-> forms[i].uuid])
  /\ UNCHANGED <<survey, rng, answers, nbuilds, nsaves, nevents, lastEvent,
                 firstSeed, codec, queries, shown>>

\* lines 368-391: the Answers of the fields are stored and the signal is sent
ThreadAnswers(i) ==
  /\ forms[i].built /\ forms[i].pc = "stored"
  /\ \E cleaned \in ValueLists(FormFields(forms[i].qs), {ImageWithSource}) :
       \E loop \in {SaveLoop(FormFields(forms[i].qs), cleaned, forms[i].rid,
                              forms[i].user, responses,
                              [atable |-> answers,
                               cache |-> [response |-> forms[i].response,
                                          answers |-> forms[i].answers],
                               pairs |-> <<>>,
                               raised |-> FALSE])} :
         /\ answers' = loop.atable
         /\ forms' = [forms EXCEPT ![i].response = loop.cache.response,
                                   ![i].answers = loop.cache.answers,
                                   ![i].pc = "done"]
         /\ result' = [slot |-> i, kind |-> "Response", id |-> forms[i].rid]
         /\ nevents' = nevents + 1
         /\ lastEvent' = [survey_id |-> 1, interview_uuid |-> forms[i].uuid,
                          responses |-> loop.pairs]
  /\ UNCHANGED <<survey, rng, responses, nbuilds, nsaves, firstSeed, codec,
                 queries, shown>>

NextThreads ==
  \/ \E i \in Slots, user \in ThreadUsers, seedParam \in SeedParams :
       ThreadInit(i, user, seedParam)
  \/ \E i \in Slots : ThreadSeed(i)
  \/ \E i \in Slots : ThreadShuffle(i)
  \/ \E i \in Slots : ThreadLookup(i)
  \/ \E i \in Slots : ThreadStore(i)
  \/ \E i \in Slots : ThreadAnswers(i)

SpecThreads == Init /\ [][NextThreads]_vars

(***************************************************************************)
(* SpecWalk: a visitor goes through a paginated survey. Step 0 is opened   *)
(* with any seed parameter; every later page is the one next_step_url()    *)
(* of the current form refers to; the form of a page may be saved before   *)
(* the next page is requested. An earlier visit may have left a Response.  *)
(***************************************************************************)
\* a faulty variant of next_step_url: the reference carries no seed of the form
next_step_url_noseed(f) ==
  [id |-> 1, step |-> Get(f.step) + 1, seed |-> 0]

\* next_step_url, lines 324-332: the parameters handed to reverse()
next_step_url(f) ==
  [id |-> 1,
   step |-> Get(f.step) + 1,
   seed |-> IF randomize_questions # {} THEN f.random_seed ELSE 0]

\* the page a form shows, as the history keeps it
PageShown(f) ==
  [step |-> Get(f.step), qs |-> f.qs, seed |-> f.random_seed, saved |-> FALSE]

\* an earlier visit of the survey: a form without a step is built ...
EarlierBuild(user, seedParam) ==
  /\ shown = <<>>
  /\ ~forms[2].built
  /\ BuildForm(2, user, None, seedParam, NoData)
  /\ UNCHANGED <<queries, shown>>

\* ... and saved
EarlierSave ==
  /\ shown = <<>>
  /\ forms[2].built
  /\ nsaves = 0
  /\ \E cleaned \in CleanedData(forms[2], {ImageWithSource}) : SaveForm(2, cleaned)
  /\ UNCHANGED <<queries, shown>>

\* the visitor opens step 0
WalkOpen(user, seedParam) ==
  /\ shown = <<>>
  /\ BuildForm(1, user, Some(0), seedParam, NoData)
  /\ shown' = <<PageShown(forms'[1])>>
  /\ UNCHANGED queries

\* the visitor submits the page: the form is saved
WalkSave ==
  /\ shown # <<>>
  /\ ~shown[Len(shown)].saved
  /\ \E cleaned \in CleanedData(forms[1], {ImageWithSource}) : SaveForm(1, cleaned)
  /\ shown' = [shown EXCEPT ![Len(shown)].saved = TRUE]
  /\ UNCHANGED queries

\* the visitor follows next_step_url(): the view builds the form of the
\* step and the seed of the reference
WalkNext ==
  /\ shown # <<>>
  /\ has_next_step(forms[1].step) = "True"
  /\ \E url \in {next_step_url(forms[1])} :
       BuildForm(1, forms[1].user, Some(url.step), Some(url.seed), NoData)
  /\ shown' = Append(shown, PageShown(forms'[1]))
  /\ UNCHANGED queries

InitWalk ==
  InitOf([display_method : {BY_CATEGORY, BY_QUESTION},
          editable_answers : BOOLEAN,
          layout : {LayoutMixed, LayoutTwoCategories},
          nulls_first : BOOLEAN],
         RngStates)

NextWalk ==
  \/ \E user \in Users, seedParam \in SeedParams : EarlierBuild(user, seedParam)
  \/ EarlierSave
  \/ \E user \in Users, seedParam \in SeedParams : WalkOpen(user, seedParam)
  \/ WalkSave
  \/ WalkNext

SpecWalk == InitWalk /\ [][NextWalk]_vars

(***************************************************************************)
(* SpecCodec: the multi-select codec on its own. A list of tokens is       *)
(* stored as the text of the list and decoded as get_question_initial      *)
(* decodes it; a raw body (legacy data) is decoded as it stands.           *)
(***************************************************************************)
\* the texts of at most n characters
RECURSIVE Texts(_)
Texts(n) ==
  IF n = 0 THEN {<<>>}
  ELSE Texts(n - 1) \cup {Append(t, c) : t \in Texts(n - 1), c \in Alphabet}

\* the lists of at most n tokens
RECURSIVE TokenLists(_)
TokenLists(n) ==
  IF n = 0 THEN {<<>>}
  ELSE TokenLists(n - 1) \cup
       {Append(l, t) : l \in TokenLists(n - 1), t \in Texts(MaxTokenLen)}

InitCodec ==
  /\ survey = [display_method |-> ALL_IN_ONE, editable_answers |-> TRUE,
               layout |-> LayoutOrdered, nulls_first |-> FALSE]
  /\ rng = 0
  /\ responses = <<>>
  /\ answers = <<>>
  /\ forms = [i \in Slots |-> NoForm]
  /\ nbuilds = 0
  /\ nsaves = 0
  /\ result = [slot |-> 0, kind |-> "init", id |-> 0]
  /\ nevents = 0
  /\ lastEvent = NoEvent
  /\ firstSeed = [u \in Users |-> None]
  /\ queries = [i \in Slots |-> NoQueries]
  /\ shown = <<>>
  /\ \/ \E l \in TokenLists(MaxTokens) :
          codec = [phase |-> "value", tokens |-> l, body |-> <<>>,
                   decoded |-> Decoded(<<>>)]
     \/ \E b \in Texts(MaxRawLen) :
          codec = [phase |-> "raw", tokens |-> <<>>, body |-> b,
                   decoded |-> Decoded(<<>>)]

\* the multi-select value is written to the text column
StoreValue ==
  /\ codec.phase = "value"
  /\ codec' = [codec EXCEPT !.phase = "stored", !.body = PyReprList(codec.tokens)]
  /\ UNCHANGED <<survey, rng, responses, answers, forms, nbuilds, nsaves,
                 result, nevents, lastEvent, firstSeed, queries, shown>>

\* lines 199-211 on the stored body
DecodeStored ==
  /\ codec.phase = "stored"
  /\ codec' = [codec EXCEPT !.phase = "decoded", !.decoded = DecodeMultiple(codec.body)]
  /\ UNCHANGED <<survey, rng, responses, answers, forms, nbuilds, nsaves,
                 result, nevents, lastEvent, firstSeed, queries, shown>>

\* lines 199-211 on a body that was not written by this application
DecodeRaw ==
  /\ codec.phase = "raw"
  /\ codec' = [codec EXCEPT !.phase = "decoded-raw", !.decoded = DecodeMultiple(codec.body)]
  /\ UNCHANGED <<survey, rng, responses, answers, forms, nbuilds, nsaves,
                 result, nevents, lastEvent, firstSeed, queries, shown>>

NextCodec == StoreValue \/ DecodeStored \/ DecodeRaw

SpecCodec == InitCodec /\ [][NextCodec]_vars

PlainToken(t) == ~Contains(t, CHOICES_SEPARATOR) /\ ~Contains(t, "'")

SaveStepOf(i) == nsaves' = nsaves + 1 /\ result'.slot = i

\* the step is the build of the form in slot i
BuildStepOf(i) == nbuilds' = nbuilds + 1 /\ forms'[i].built /\ forms'[i].uuid = nbuilds'

\* C1: when editable_answers is false and a Response is stored for the
\* logged-in user of the form, save() returns None, leaves every Response
\* and every Answer as it is and sends no completion signal
C1_LockedSaveChangesNothing ==
  [][\A i \in Slots :
       ( /\ SaveStepOf(i)
         /\ forms[i].built
         /\ ~survey.editable_answers
         /\ is_authenticated(forms[i].user)
         /\ ResponseRows(forms[i].user, responses) # {} )
       => /\ result'.kind = "None"
          /\ UNCHANGED <<responses, answers, nevents, lastEvent>>]_vars

\* a locked save() was called on a survey that holds Answers
C1_Witness ==
  /\ ~survey.editable_answers
  /\ result.kind = "None"
  /\ responses # <<>>
  /\ answers # <<>>

\* C2: at most one Response is stored for a logged-in user
C2_OneResponsePerUser ==
  \A u \in Users :
    is_authenticated(u) => Cardinality(ResponseRows(u, responses)) <= 1

\* the form in slot i, built before any Response was stored, was saved after
\* the younger form in slot j had inserted the Response, and took that row
C2_Witness ==
  \E i, j \in Slots :
    /\ forms[i].built /\ forms[j].built
    /\ forms[i].uuid < forms[j].uuid
    /\ forms[j].instance # 0
    /\ forms[i].instance = 0
    /\ result = [slot |-> i, kind |-> "Response", id |-> forms[j].instance]
    /\ Len(responses) = 1

\* C3 (as stated): on an editable survey at most one Answer is stored for a
\* Response, a question and an answer group
C3_OneAnswerPerField ==
  survey.editable_answers =>
    \A a, b \in DOMAIN answers :
      ( /\ answers[a].response = answers[b].response
        /\ answers[a].question = answers[b].question
        /\ answers[a].answer_group = answers[b].answer_group ) => a = b

\* C4 (as stated): a form built for a logged-in user once the user's
\* Response is stored takes the seed the first save() persisted
C4_SeedOfFirstSave ==
  [][\A i \in Slots :
       ( /\ BuildStepOf(i)
         /\ is_authenticated(forms'[i].user)
         /\ firstSeed[forms'[i].user] # None )
       => forms'[i].random_seed = Get(firstSeed[forms'[i].user])]_vars

(***************************************************************************)
(* The claims about the pages of a build (SpecPages).                      *)
(***************************************************************************)
\* C5: two forms built with the same seed on the same step hold the same
\* questions in the same order, whatever was shuffled before each build
C5_SameSeedSameOrder ==
  \A i, j \in Slots :
    ( /\ forms[i].built /\ forms[j].built
      /\ forms[i].random_seed = forms[j].random_seed
      /\ forms[i].step = forms[j].step )
    => forms[i].qs = forms[j].qs

\* two forms of the same seed show the whole survey in the same shuffled
\* order, which is not the stored order
C5_Witness ==
  /\ forms[1].built /\ forms[2].built
  /\ forms[1].random_seed = forms[2].random_seed
  /\ forms[1].step = None /\ forms[2].step = None
  /\ Len(forms[1].qs) = Cardinality(Questions)
  /\ forms[1].qs # order_by(Questions)
  /\ forms[1].qs = forms[2].qs

\* steps_count as the claim words it
ClaimedStepsCount ==
  IF survey.display_method = BY_CATEGORY
  THEN Cardinality({c \in Categories :
                      \E q \in Questions : survey.layout[q].category = Some(c)})
       + (IF \E q \in Questions : survey.layout[q].category = None THEN 1 ELSE 0)
  ELSE Cardinality(Questions)

\* C6: has_next_step() is true exactly when the mode is not ALL_IN_ONE and
\* step < steps_count - 1; in ALL_IN_ONE mode it is false for every step,
\* a null step included
C6_HasNextStep ==
  \A i \in Slots :
    forms[i].built =>
      /\ survey.display_method = ALL_IN_ONE => has_next_step(forms[i].step) = "False"
      /\ (survey.display_method # ALL_IN_ONE /\ forms[i].step # None) =>
           has_next_step(forms[i].step) =
             (IF Get(forms[i].step) < ClaimedStepsCount - 1 THEN "True" ELSE "False")

\* a form on the last category page of a survey that has uncategorized
\* questions: the page of the uncategorized questions is the next step
C6_Witness ==
  \E i \in Slots :
    /\ forms[i].built
    /\ survey.display_method = BY_CATEGORY
    /\ qs_with_no_cat # <<>>
    /\ forms[i].step = Some(Len(non_empty_categories) - 1)
    /\ has_next_step(forms[i].step) = "True"

\* the full question list of a form as the claim words it: (order, id)
\* order, shuffled with the seed of the form when a question has no order
ClaimedQuestionList(f) ==
  IF \E q \in Questions : survey.layout[q].order = None
  THEN ShuffleFrom(order_by(Questions), Cardinality(Questions),
                   RngSeed(f.random_seed)).list
  ELSE order_by(Questions)

\* C7: in BY_QUESTION mode with a step s, 0 <= s < number of questions, the
\* form holds exactly the question at index s of the full question list
C7_OneQuestionPerStep ==
  \A i \in Slots :
    ( /\ forms[i].built
      /\ survey.display_method = BY_QUESTION
      /\ forms[i].step # None
      /\ Get(forms[i].step) < Cardinality(Questions) )
    => /\ forms[i].qs = <<ClaimedQuestionList(forms[i])[Get(forms[i].step) + 1]>>
       /\ DOMAIN forms[i].initial \subseteq Range(FieldsOf(forms[i].qs[1]))

\* a BY_QUESTION form of step 1 whose question is not the second question
\* of the stored order: the shuffle decided it
C7_Witness ==
  \E i \in Slots :
    /\ forms[i].built
    /\ survey.display_method = BY_QUESTION
    /\ forms[i].step = Some(1)
    /\ Len(forms[i].qs) = 1
    /\ forms[i].qs[1] # order_by(Questions)[2]

\* the questions on the page of step s of a BY_CATEGORY survey
CategoryPage(s, seed) == Range(PageOf(Some(s), seed, rng).list)

\* C8: in BY_CATEGORY mode the page of step s = number of categories holds
\* exactly the uncategorized questions, the page of a smaller step exactly
\* the questions of categories[s]; over the steps 0..steps_count-1 every
\* question is on exactly one page
C8_CategoryPages ==
  survey.display_method = BY_CATEGORY =>
    /\ \A i \in Slots :
         (forms[i].built /\ forms[i].step # None) =>
           /\ Len(forms[i].qs) = Cardinality(Range(forms[i].qs))
           /\ Range(forms[i].qs) =
                IF Get(forms[i].step) = Len(non_empty_categories)
                THEN {q \in Questions : survey.layout[q].category = None}
                ELSE {q \in Questions : survey.layout[q].category =
                        Some(non_empty_categories[Get(forms[i].step) + 1])}
    /\ \A q \in Questions, seed \in Seeds :
         Cardinality({s \in 0..(steps_count - 1) : q \in CategoryPage(s, seed)}) = 1

\* a form on the page of the uncategorized questions, which holds a question
C8_Witness ==
  \E i \in Slots :
    /\ forms[i].built
    /\ survey.display_method = BY_CATEGORY
    /\ forms[i].step = Some(Len(non_empty_categories))
    /\ forms[i].qs # <<>>

\* C9: a form built with non-empty data takes the initial value of every
\* field from data["question_<id>"] alone: a group with an entry there gets
\* that entry, a group without one gets no initial value
C9_InitialFromData ==
  \A i \in Slots :
    (forms[i].built /\ forms[i].data.truthy) =>
      \A fld \in Range(FormFields(forms[i].qs)) :
        IF /\ fld[1] \in DOMAIN forms[i].data.entries
           /\ fld[2] \in DOMAIN forms[i].data.entries[fld[1]]
        THEN /\ fld \in DOMAIN forms[i].initial
             /\ forms[i].initial[fld] = forms[i].data.entries[fld[1]][fld[2]]
        ELSE fld \notin DOMAIN forms[i].initial

\* a form built with data for one group of question 1 while Answers are
\* stored for both groups of question 1: the first field shows the data, not
\* the stored body, and the second field shows nothing
C9_Witness ==
  \E i \in Slots :
    /\ forms[i].built /\ forms[i].data.truthy
    /\ 1 \in DOMAIN forms[i].data.entries
    /\ <<1, 1>> \in DOMAIN forms[i].answers.map
    /\ <<1, 2>> \in DOMAIN forms[i].answers.map
    /\ <<1, 1>> \in DOMAIN forms[i].initial
    /\ forms[i].initial[<<1, 1>>].text # answers[forms[i].answers.map[<<1, 1>>]].body
    /\ <<1, 2>> \notin DOMAIN forms[i].initial

(***************************************************************************)
(* The claims about the submission (SpecSubmit).                           *)
(***************************************************************************)
\* the Answer rows of response r for the field fld
AnswerRowsOf(r, fld, atable) ==
  {a \in DOMAIN atable : /\ atable[a].response = r
                          /\ atable[a].question = fld[1]
                          /\ atable[a].answer_group = fld[2]}

\* the submission cleaned of the form f is in the tables and in the signal:
\* one more signal, carrying the survey, the uuid of the form and the pairs
\* of the fields in order, sent when the Response and an Answer of each
\* field with the submitted body are stored
EventCarries(f, cleaned) ==
  LET flds == FormFields(f.qs)
  IN  /\ nevents' = nevents + 1
      /\ lastEvent' = [survey_id |-> 1,
                       interview_uuid |-> f.uuid,
                       responses |-> [k \in 1..Len(flds) |-> <<flds[k][1], cleaned[k]>>]]
      /\ result'.id \in DOMAIN responses'
      /\ responses'[result'.id].interview_uuid = f.uuid
      /\ \A k \in 1..Len(flds) :
           \E a \in AnswerRowsOf(result'.id, flds[k], answers') :
             answers'[a].body = ToBody(cleaned[k])

\* C11 (as stated): every save() that is not the locked no-op sends exactly
\* one completion signal, after the Response and the Answers are stored,
\* carrying the survey id, the uuid of the form and the (question, body)
\* pairs of the submitted fields in submission order
C11_OneEventPerSave ==
  [][\A i \in Slots :
       (SaveStepOf(i) /\ result'.kind # "None") =>
         \E cleaned \in CleanedData(forms[i], {ImageWithSource, ImageWithoutSource}) :
           SaveForm(i, cleaned) /\ EventCarries(forms[i], cleaned)]_vars

\* C11, for the save() calls that return a Response: the same statement
\* holds of them, so that only a save() that raises goes without its signal
C11_OneEventPerReturningSave ==
  [][\A i \in Slots :
       (SaveStepOf(i) /\ result'.kind = "Response") =>
         \E cleaned \in CleanedData(forms[i], {ImageWithSource, ImageWithoutSource}) :
           SaveForm(i, cleaned) /\ EventCarries(forms[i], cleaned)]_vars

\* C14 (as stated): save() does not raise on a select-with-image value
\* without a colon: the call returns and its signal is sent
C14_NoColonDoesNotRaise ==
  [][\A i \in Slots :
       SaveStepOf(i) => /\ result'.kind # "ValueError"
                        /\ result'.kind = "Response" => nevents' = nevents + 1]_vars

(***************************************************************************)
(* The claims about the pages (SpecPages), continued.                      *)
(***************************************************************************)
\* C12 (as stated): on every page the questions that have an explicit order
\* stand in ascending (order, id) order relative to each other
C12_ExplicitOrderKept ==
  \A i \in Slots :
    forms[i].built =>
      \A a, b \in 1..Len(forms[i].qs) :
        (/\ a < b
         /\ survey.layout[forms[i].qs[a]].order # None
         /\ survey.layout[forms[i].qs[b]].order # None)
          => Before(forms[i].qs[a], forms[i].qs[b])

\* the widget the claim gives a field: the one mapped to the type of its own
\* group, or the default widget of its field kind
ClaimedWidget(t) ==
  IF t \in DOMAIN WIDGETS THEN WIDGETS[t] ELSE DefaultWidget(FieldKind(t))

\* C13 (as stated): the widget of every field is decided by the type of its
\* own answer group, whatever the types of the other groups of the question
C13_WidgetOfOwnType ==
  \A i \in Slots :
    forms[i].built =>
      \A f \in DOMAIN forms[i].widget :
        forms[i].widget[f] = ClaimedWidget(AnswerGroupType[f[2]])

(***************************************************************************)
(* The claim about the lookups (SpecCache).                                *)
(***************************************************************************)
\* C15 (as stated): from construction through save() a form sends at most
\* one query to the Response table and at most one to the Answer table
C15_OneQueryPerTable ==
  \A i \in Slots : queries[i].response <= 1 /\ queries[i].answers <= 1

\* C15, for a form that found a Response holding Answers at its first
\* lookups: both results are memoized and no further query is sent
C15_FoundIsMemoized ==
  [][\A i \in Slots :
       (/\ forms[i].built /\ forms[i].pc # "new" /\ forms'[i].built
        /\ forms'[i].uuid = forms[i].uuid
        /\ forms[i].response.state = "found")
         => /\ queries'[i].response = queries[i].response
            /\ AnswersTruthy(forms[i].answers) => queries'[i].answers = queries[i].answers]_vars

(***************************************************************************)
(* The claims about concurrent requests (SpecThreads).                     *)
(***************************************************************************)
\* the step writes, or tries to write, the Response row of the form in slot i
StoreStepOf(i) ==
  /\ forms[i].built /\ forms[i].pc = "looked"
  /\ forms'[i].pc \in {"stored", "done"}

\* C16: a save() whose lookup found no Response while another save() of the
\* same logged-in user has stored one since does not look again: it inserts
\* a second Response for the user, unless the table rejects the insert
C16_RaceLeftToStorage ==
  [][\A i \in Slots :
       (/\ StoreStepOf(i)
        /\ forms[i].response.state = "None"
        /\ ResponseRows(forms[i].user, responses) # {})
         => \/ /\ result' = [slot |-> i, kind |-> "IntegrityError", id |-> 0]
               /\ responses' = responses
            \/ /\ result'.kind = "stored"
               /\ Cardinality(ResponseRows(forms[i].user, responses')) =
                    Cardinality(ResponseRows(forms[i].user, responses)) + 1]_vars

\* both save() calls of one user ran their lookup before either stored its
\* row, and two Responses of that user are stored
C16_Witness ==
  /\ forms[1].built /\ forms[2].built
  /\ forms[1].user = forms[2].user
  /\ forms[1].pc \in {"stored", "done"} /\ forms[2].pc \in {"stored", "done"}
  /\ forms[1].response.state # "found" \/ forms[2].response.state # "found"
  /\ Cardinality(ResponseRows(forms[1].user, responses)) = 2

\* C17 (as stated): however the requests of two different users interleave,
\* each form holds its questions in the order its own seed gives when the
\* request runs alone
C17_OrderAsAlone ==
  \A i, j \in Slots :
    (/\ i # j
     /\ forms[i].built /\ forms[j].built
     /\ forms[i].user # forms[j].user
     /\ forms[i].pc \in {"built", "looked", "stored", "done"})
      => forms[i].qs =
           MaybeShuffle(order_by(Questions), forms[i].random_seed, 0).list

(***************************************************************************)
(* The claims about a visit of a paginated survey (SpecWalk).              *)
(***************************************************************************)
\* the visitor is on the last page: has_next_step() is false
WalkEnded ==
  shown # <<>> /\ forms[1].built /\ has_next_step(forms[1].step) = "False"

\* C18: in BY_QUESTION mode with a question of null order, the pages of the
\* walk are built with one seed, each shows one question, no question is
\* shown twice, and at the end of the walk every question was shown
C18_WalkShowsEachOnce ==
  (survey.display_method = BY_QUESTION /\ randomize_questions # {}) =>
    /\ \A k \in 1..Len(shown) :
         /\ Len(shown[k].qs) = 1
         /\ shown[k].step = k - 1
         /\ shown[k].seed = shown[1].seed
    /\ \A k, l \in 1..Len(shown) : k # l => shown[k].qs # shown[l].qs
    /\ WalkEnded => {shown[k].qs[1] : k \in 1..Len(shown)} = Questions

\* a walk through a BY_QUESTION survey ended; its pages were saved, and the
\* questions were not shown in their stored order
C18_Witness ==
  /\ survey.display_method = BY_QUESTION /\ randomize_questions # {}
  /\ WalkEnded
  /\ Len(shown) = Cardinality(Questions)
  /\ \A k \in 1..Len(shown) : shown[k].saved \/ k = Len(shown)
  /\ [k \in 1..Len(shown) |-> shown[k].qs[1]] # order_by(Questions)

\* the fields of the pages the walk showed
WalkFields == UNION {Range(FormFields(shown[k].qs)) : k \in 1..Len(shown)}

\* a logged-in visitor without an earlier visit saved every page of the
\* walk, the last one included
WalkSavedThrough ==
  /\ WalkEnded
  /\ ~forms[2].built
  /\ is_authenticated(forms[1].user)
  /\ \A k \in 1..Len(shown) : shown[k].saved

\* the Answers stored for the field fld under the Responses of the user
AnswersOfUser(user, fld) ==
  {a \in DOMAIN answers :
     /\ answers[a].response \in ResponseRows(user, responses)
     /\ answers[a].question = fld[1]
     /\ answers[a].answer_group = fld[2]}

====
